---- MODULE Spec2Model ----
(***************************************************************************)
(* Model of pymeleon's rewrite-rule engine (language/rule.py): the         *)
(* construction of a Rule's node correspondence and Rule.apply on a        *)
(* networkx DiGraph with an "order" attribute on every edge.               *)
(*                                                                         *)
(* A node is a pair <<space, k>>: Python compares Node objects by          *)
(* identity, so two allocations are never equal.  The spaces are "in" and  *)
(* "out" (the nodes of a rule's two pattern graphs), "t" (the nodes of     *)
(* target graphs) and "w1", "w2" (the nodes a concurrent worker            *)
(* allocates).  The root sentinel is the string "root_node" in every       *)
(* graph, hence one and the same node in all of them.                      *)
(***************************************************************************)
EXTENDS Integers, Sequences, FiniteSets, TLC

VARIABLES
    rule,        \* SpecRule: the Rule object under construction
    graphs,      \* the graph objects: reference -> DiGraph value
    heap,        \* the payload (.value) of every allocated target Node
    next,        \* allocation counter of each node space
    last,        \* the last call of Rule.apply: its arguments and outcome
    napplies,    \* number of apply calls made so far
    cur,         \* SpecConc: the Rule's _cur_graph/_cur_transform_dict/_cur_node_dict
    work         \* SpecConc: each worker's call frame

vars == <<rule, graphs, heap, next, last, napplies, cur, work>>

----------------------------------------------------------------------------
(* Bounds                                                                  *)

MaxTop == 2          \* top-level expressions of a pattern drawn for SpecRule
MaxApplies == 2      \* apply calls in one behaviour of Spec

----------------------------------------------------------------------------
(* networkx.DiGraph: a set of nodes and a set of edges <<u, v, order>>,    *)
(* at most one per pair (u, v).                                            *)

root_node == <<"root_node", 0>>

EmptyGraph == [nodes |-> {root_node}, edges |-> {}]

has_edge(G, u, v) == \E e \in G.edges : e[1] = u /\ e[2] = v

get_edge_data(G, u, v) == (CHOOSE e \in G.edges : e[1] = u /\ e[2] = v)[3]

add_edge(G, u, v, order) ==
    [nodes |-> G.nodes \cup {u, v},
     edges |-> {e \in G.edges : ~(e[1] = u /\ e[2] = v)} \cup {<<u, v, order>>}]

remove_edge(G, u, v) ==
    [G EXCEPT !.edges = {e \in G.edges : ~(e[1] = u /\ e[2] = v)}]

remove_node(G, n) ==
    [nodes |-> G.nodes \ {n},
     edges |-> {e \in G.edges : e[1] # n /\ e[2] # n}]

successors(G, n) == {e[2] : e \in {d \in G.edges : d[1] = n}}

predecessors(G, n) == {e[1] : e \in {d \in G.edges : d[2] = n}}

out_edges(G, n) == {e \in G.edges : e[1] = n}

out_degree(G, n) == Cardinality(successors(G, n))

in_degree(G, n) == Cardinality(predecessors(G, n))

\* Iteration order of an adjacency: the order the edges were inserted in,
\* which for a parsed graph is the order of the "order" attribute; ties
\* (which only a rewritten target graph can have) are broken by node.
RECURSIVE SortEdges(_)
SortEdges(E) ==
    IF E = {} THEN <<>>
    ELSE LET e == CHOOSE x \in E : \A y \in E : x[3] <= y[3]
         IN  <<e>> \o SortEdges(E \ {e})

successor_list(G, n) ==
    LET s == SortEdges(out_edges(G, n)) IN [i \in 1..Len(s) |-> s[i][2]]

Range(s) == {s[i] : i \in DOMAIN s}

----------------------------------------------------------------------------
(* The pattern parser (language/parser.py is not part of the sources): a   *)
(* pattern is a sequence of top-level expressions, an expression is a      *)
(* payload with a sequence of argument expressions.  Parsing allocates one *)
(* Node per occurrence, in pre-order, and numbers the out-edges of a node  *)
(* 0, 1, ... in argument order.                                            *)

Leaf(v) == [value |-> v, args |-> <<>>]

Call(f, a) == [value |-> f, args |-> a]

RECURSIVE ParseTerm(_, _, _, _, _)
RECURSIVE ParseArgs(_, _, _, _, _)
ParseTerm(acc, space, parent, order, term) ==
    LET node == <<space, acc.n + 1>>
        a1 == [graph |-> add_edge(acc.graph, parent, node, order),
               value |-> acc.value @@ (node :> term.value),
               n |-> acc.n + 1,
               variables_constants |->
                   IF term.args = <<>> THEN acc.variables_constants \cup {term.value}
                   ELSE acc.variables_constants,
               functions |->
                   IF term.args = <<>> THEN acc.functions
                   ELSE acc.functions \cup {term.value}]
    IN  ParseArgs(a1, space, node, term.args, 1)

ParseArgs(acc, space, parent, args, i) ==
    IF i > Len(args) THEN acc
    ELSE ParseArgs(ParseTerm(acc, space, parent, i - 1, args[i]), space, parent, args, i + 1)

parse(space, pattern) ==
    ParseArgs([graph |-> EmptyGraph, value |-> <<>>, n |-> 0,
               variables_constants |-> {}, functions |-> {}],
              space, root_node, pattern, 1)

\* list(graph.nodes)[1:]: the nodes in insertion order, the root dropped.
node_list(space, parser_obj) == [i \in 1..parser_obj.n |-> <<space, i>>]

----------------------------------------------------------------------------
(* Rule.__init__ and Rule._create_node_dict                                *)

\* for node in tuple(self._graph_in.nodes)[1:]: graph_in_node_dict[node.value] = node
\* (a later node with the same payload overwrites an earlier one)
RECURSIVE graph_in_node_dict_loop(_, _, _, _)
graph_in_node_dict_loop(d, nodes, value, i) ==
    IF i > Len(nodes) THEN d
    ELSE graph_in_node_dict_loop(
             [v \in DOMAIN d \cup {value[nodes[i]]} |->
                 IF v = value[nodes[i]] THEN nodes[i] ELSE d[v]],
             nodes, value, i + 1)

\* One pass of "for obj in common_obj" with obj_nodes hoisted out of the
\* loop: the list keeps the nodes of the payloads handled before.
node_dict_step_hoisted(st, obj, graph_in_node_dict, value_out) ==
    LET hit == SelectSeq(st.unmatched_nodes, LAMBDA node : value_out[node] = obj)
        obj_nodes == st.obj_nodes \o hit
        key == graph_in_node_dict[obj]
    IN  [node_dict |-> [k \in DOMAIN st.node_dict \cup {key} |->
                           IF k = key THEN obj_nodes ELSE st.node_dict[k]],
         reverse_node_dict |-> [o \in DOMAIN st.reverse_node_dict \cup Range(hit) |->
                           IF o \in Range(hit) THEN key ELSE st.reverse_node_dict[o]],
         unmatched_nodes |-> SelectSeq(st.unmatched_nodes, LAMBDA node : node \notin Range(obj_nodes)),
         obj_nodes |-> obj_nodes]

\* One pass of "for obj in common_obj" (lines 55-62).
node_dict_step(st, obj, graph_in_node_dict, value_out) ==
    LET obj_nodes == SelectSeq(st.unmatched_nodes, LAMBDA node : value_out[node] = obj)
        key == graph_in_node_dict[obj]
    IN  [node_dict |-> [k \in DOMAIN st.node_dict \cup {key} |->
                           IF k = key THEN obj_nodes ELSE st.node_dict[k]],
         reverse_node_dict |-> [o \in DOMAIN st.reverse_node_dict \cup Range(obj_nodes) |->
                           IF o \in Range(obj_nodes) THEN key ELSE st.reverse_node_dict[o]],
         unmatched_nodes |-> SelectSeq(st.unmatched_nodes, LAMBDA node : node \notin Range(obj_nodes)),
         obj_nodes |-> <<>>]

\* Iteration over the set common_obj, in the set's (arbitrary but fixed) order.
RECURSIVE node_dict_loop(_, _, _, _)
node_dict_loop(st, objs, graph_in_node_dict, value_out) ==
    IF objs = {} THEN st
    ELSE LET obj == CHOOSE o \in objs : TRUE
         IN  node_dict_loop(node_dict_step(st, obj, graph_in_node_dict, value_out),
                            objs \ {obj}, graph_in_node_dict, value_out)

create_node_dict(parser_obj_in, parser_obj_out) ==
    LET graph_in_node_dict ==
            graph_in_node_dict_loop(<<>>, node_list("in", parser_obj_in), parser_obj_in.value, 1)
        common_obj == parser_obj_in.variables_constants \cap parser_obj_out.variables_constants
    IN  node_dict_loop([node_dict |-> <<>>, reverse_node_dict |-> <<>>,
                        unmatched_nodes |-> node_list("out", parser_obj_out),
                        obj_nodes |-> <<>>],
                       common_obj, graph_in_node_dict, parser_obj_out.value)

Rule(parser_obj_in, parser_obj_out) ==
    LET d == create_node_dict(parser_obj_in, parser_obj_out)
    IN  [graph_in |-> parser_obj_in.graph,
         value_in |-> parser_obj_in.value,
         obj_in |-> parser_obj_in.variables_constants,
         graph_out |-> parser_obj_out.graph,
         value_out |-> parser_obj_out.value,
         obj_out |-> parser_obj_out.variables_constants,
         node_dict |-> d.node_dict,
         reverse_node_dict |-> d.reverse_node_dict]

NoRule == [graph_in |-> EmptyGraph, value_in |-> <<>>, obj_in |-> {},
           graph_out |-> EmptyGraph, value_out |-> <<>>, obj_out |-> {},
           node_dict |-> <<>>, reverse_node_dict |-> <<>>]

NotBuilt == [state |-> "none", in |-> <<>>, out |-> <<>>, self |-> NoRule]

----------------------------------------------------------------------------
(* The state Rule.apply works on.  st is the part of the memory a call can *)
(* touch: the graph objects (by reference), the payload of every Node, the *)
(* allocation counters, the Rule's own attributes _cur_graph,              *)
(* _cur_transform_dict and _cur_node_dict (st.cur), the exception raised   *)
(* ("" while none is), and a log of what lines 157-161 saw.                *)
(* A transform_node_dict is a sequence of <<pattern node, target node>>    *)
(* pairs: a dict iterates in insertion order.                              *)

dict_keys(d) == [i \in 1..Len(d) |-> d[i][1]]

dict_has(d, k) == \E i \in 1..Len(d) : d[i][1] = k

dict_get(d, k) == d[CHOOSE i \in 1..Len(d) : d[i][1] = k][2]

\* dict((v, k) for k, v in transform_node_dict.items()): a repeated v keeps
\* the position of its first occurrence and the k of its last.
reverse_dict(d) ==
    LET firsts == SelectSeq([i \in 1..Len(d) |-> i],
                            LAMBDA i : \A j \in 1..(i - 1) : d[j][2] # d[i][2])
    IN  [n \in 1..Len(firsts) |->
            <<d[firsts[n]][2],
              d[CHOOSE j \in 1..Len(d) :
                    /\ d[j][2] = d[firsts[n]][2]
                    /\ \A k \in (j + 1)..Len(d) : d[k][2] # d[j][2]][1]>>]

raise(st, exc) == [st EXCEPT !.raised = exc]

\* Node(value): a fresh allocation in the caller's node space.
NewNode(st, space) == <<space, st.next[space] + 1>>

Node(st, space, value) ==
    [st EXCEPT !.heap = st.heap @@ (NewNode(st, space) :> value),
               !.next[space] = st.next[space] + 1]

cur_graph(st) == st.graphs[st.cur.graph]

set_cur_graph(st, G) == [st EXCEPT !.graphs[st.cur.graph] = G]

\* _copy_apply_graph is declared without self and has no body: the bound
\* call self._copy_apply_graph(graph) raises TypeError.  The result names
\* the working graph and the renaming of target nodes that gives the new
\* transform_node_dict.
copy_apply_graph_alias(st, graph) ==
    [raised |-> "", graph |-> graph,
     remap |-> [n \in DOMAIN st.heap |-> n]]

copy_apply_graph(st, graph) ==
    [raised |-> "TypeError", graph |-> graph, remap |-> <<>>]

\* _remove_mapped_edges_rec (lines 72-76)
RECURSIVE remove_mapped_edges_rec(_, _, _)
RECURSIVE remove_mapped_edges_loop(_, _, _, _, _)
remove_mapped_edges_rec(self, st, node) ==
    remove_mapped_edges_loop(self, st, node, successor_list(self.graph_in, node), 1)

remove_mapped_edges_loop(self, st, node, succs, i) ==
    IF st.raised # "" \/ i > Len(succs) THEN st
    ELSE LET td == st.cur.transform_dict
         IN  IF ~dict_has(td, node) \/ ~dict_has(td, succs[i]) THEN raise(st, "KeyError")
             ELSE IF ~has_edge(cur_graph(st), dict_get(td, node), dict_get(td, succs[i]))
                  THEN raise(st, "NetworkXError")
             ELSE remove_mapped_edges_loop(self,
                      remove_mapped_edges_rec(self,
                          set_cur_graph(st, remove_edge(cur_graph(st), dict_get(td, node),
                                                        dict_get(td, succs[i]))),
                          succs[i]),
                      node, succs, i + 1)

\* lines 128-129
RECURSIVE remove_matched_structure(_, _, _, _)
remove_matched_structure(self, st, tops, i) ==
    IF st.raised # "" \/ i > Len(tops) THEN st
    ELSE remove_matched_structure(self, remove_mapped_edges_rec(self, st, tops[i]), tops, i + 1)

\* _copy_output_node (lines 78-88): the copy is NewNode(st, space) of the
\* state the operator is given.
append_cur_node_dict(st, key, node_copy) ==
    [st EXCEPT !.cur.node_dict =
        [k \in DOMAIN st.cur.node_dict \cup {key} |->
            IF k = key
            THEN (IF key \in DOMAIN st.cur.node_dict THEN st.cur.node_dict[key] ELSE <<>>)
                 \o <<node_copy>>
            ELSE st.cur.node_dict[k]]]

copy_output_node(self, st, space, node) ==
    IF node \in DOMAIN self.reverse_node_dict
    THEN LET in_node == self.reverse_node_dict[node]
         IN  IF ~dict_has(st.cur.transform_dict, in_node) THEN raise(st, "KeyError")
             ELSE append_cur_node_dict(
                      Node(st, space, st.heap[dict_get(st.cur.transform_dict, in_node)]),
                      in_node, NewNode(st, space))
    ELSE Node(st, space, self.value_out[node])

\* _add_output_graph_rec (lines 90-95)
RECURSIVE add_output_graph_rec(_, _, _, _, _)
RECURSIVE add_output_graph_rec_loop(_, _, _, _, _, _, _)
add_output_graph_rec(self, st, space, root, root_node_copy) ==
    add_output_graph_rec_loop(self, st, space, root, root_node_copy,
                              successor_list(self.graph_out, root), 1)

add_output_graph_rec_loop(self, st, space, root, root_node_copy, succs, i) ==
    IF st.raised # "" \/ i > Len(succs) THEN st
    ELSE LET node == succs[i]
             node_copy == NewNode(st, space)
             s1 == copy_output_node(self, st, space, node)
             s2 == IF s1.raised # "" THEN s1
                   ELSE set_cur_graph(s1, add_edge(cur_graph(s1), root_node_copy, node_copy,
                                                   get_edge_data(self.graph_out, root, node)))
         IN  add_output_graph_rec_loop(self,
                 add_output_graph_rec(self, s2, space, node, node_copy),
                 space, root, root_node_copy, succs, i + 1)

\* the order given to a new top-level node without correspondence (line 105)
top_level_order == -1

\* _add_output_graph, lines 102-106
RECURSIVE add_output_graph_loop(_, _, _, _, _)
add_output_graph_loop(self, st, space, succs, i) ==
    IF st.raised # "" \/ i > Len(succs) THEN st
    ELSE LET node == succs[i]
             node_copy == NewNode(st, space)
             s1 == copy_output_node(self, st, space, node)
             s2 == IF s1.raised # "" \/ node \in DOMAIN self.reverse_node_dict THEN s1
                   ELSE set_cur_graph(s1, add_edge(cur_graph(s1), root_node, node_copy,
                                                   top_level_order))
         IN  add_output_graph_loop(self,
                 add_output_graph_rec(self, s2, space, node, node_copy),
                 space, succs, i + 1)

\* _add_output_graph, line 101
reset_cur_node_dict(st) == [st EXCEPT !.cur.node_dict = <<>>]

add_output_graph(self, st, space) ==
    add_output_graph_loop(self, reset_cur_node_dict(st), space,
                          successor_list(self.graph_out, root_node), 1)

----------------------------------------------------------------------------
(* Rule.apply, lines 136-161: the loop over reverse_transform_dict.  It    *)
(* works on the call's own graph reference and on the dict object read     *)
(* from self._cur_node_dict at line 132.                                   *)

set_graph(st, graph, G) == [st EXCEPT !.graphs[graph] = G]

\* lines 145-147: the out-edges of pre_node above cur_order move up
shift_orders(G, pre_node, cur_order, num_out_nodes) ==
    [G EXCEPT !.edges =
        {IF e[1] = pre_node /\ e[3] > cur_order
         THEN <<e[1], e[2], e[3] + num_out_nodes - 1>> ELSE e : e \in G.edges}]

\* lines 148-149
RECURSIVE add_pre_edges(_, _, _, _, _)
add_pre_edges(G, pre_node, out_nodes, cur_order, i) ==
    IF i > Len(out_nodes) THEN G
    ELSE add_pre_edges(add_edge(G, pre_node, out_nodes[i], cur_order + (i - 1)),
                       pre_node, out_nodes, cur_order, i + 1)

\* lines 140-149, over the predecessors that are not part of the match
RECURSIVE rewire_predecessors(_, _, _, _, _)
rewire_predecessors(G, pres, graph_node, out_nodes, matched) ==
    IF pres = {} THEN G
    ELSE LET pre_node == CHOOSE n \in pres : TRUE
             cur_order == get_edge_data(G, pre_node, graph_node)
         IN  rewire_predecessors(
                 IF pre_node \in matched THEN G
                 ELSE add_pre_edges(shift_orders(G, pre_node, cur_order, Len(out_nodes)),
                                    pre_node, out_nodes, cur_order, 1),
                 pres \ {pre_node}, graph_node, out_nodes, matched)

\* lines 152-153
RECURSIVE add_suc_edges(_, _, _, _, _)
add_suc_edges(G, suc_node, out_nodes, order, i) ==
    IF i > Len(out_nodes) THEN G
    ELSE add_suc_edges(add_edge(G, out_nodes[i], suc_node, order),
                       suc_node, out_nodes, order, i + 1)

\* lines 150-153, over the successors that are not part of the match
RECURSIVE rewire_successors(_, _, _, _, _)
rewire_successors(G, sucs, graph_node, out_nodes, matched) ==
    IF sucs = {} THEN G
    ELSE LET suc_node == CHOOSE n \in sucs : TRUE
         IN  rewire_successors(
                 IF suc_node \in matched THEN G
                 ELSE add_suc_edges(G, suc_node, out_nodes,
                                    get_edge_data(G, graph_node, suc_node), 1),
                 sucs \ {suc_node}, graph_node, out_nodes, matched)

\* lines 137-139 with the key translated through reverse_transform_dict
node_dict_key_translated(reverse_transform_dict, graph_node) ==
    dict_get(reverse_transform_dict, graph_node)

\* lines 137-139, 152: cur_node_dict is indexed with the target node itself,
\* while _copy_output_node (line 85) files the copies under input-pattern nodes
node_dict_key(reverse_transform_dict, graph_node) == graph_node

has_output_nodes(cur_node_dict, reverse_transform_dict, graph_node) ==
    node_dict_key(reverse_transform_dict, graph_node) \in DOMAIN cur_node_dict

output_nodes(cur_node_dict, reverse_transform_dict, graph_node) ==
    cur_node_dict[node_dict_key(reverse_transform_dict, graph_node)]

\* lines 157-158 without the out_degree test
is_orphan_any_out_degree(G, graph_node) ==
    in_degree(G, graph_node) = 0 \/ root_node \in predecessors(G, graph_node)

\* lines 157-158
is_orphan(G, graph_node) ==
    /\ out_degree(G, graph_node) = 0
    /\ in_degree(G, graph_node) = 0 \/ root_node \in predecessors(G, graph_node)

\* one pass of "for graph_node in reverse_transform_dict" (lines 137-161)
reattach_step(st, graph, cur_node_dict, reverse_transform_dict, graph_node) ==
    LET G == st.graphs[graph]
        matched == Range(dict_keys(reverse_transform_dict))
        seen == [node |-> graph_node,
                 mapped |-> has_output_nodes(cur_node_dict, reverse_transform_dict, graph_node),
                 out_degree |-> out_degree(G, graph_node),
                 predecessors |-> predecessors(G, graph_node)]
        logged == [st EXCEPT !.log = Append(st.log, seen)]
    IN  IF graph_node \notin G.nodes THEN raise(st, "NetworkXError")
        ELSE IF has_output_nodes(cur_node_dict, reverse_transform_dict, graph_node)
        THEN LET out_nodes == output_nodes(cur_node_dict, reverse_transform_dict, graph_node)
                 G1 == rewire_predecessors(G, predecessors(G, graph_node), graph_node,
                                           out_nodes, matched)
                 G2 == rewire_successors(G1, successors(G1, graph_node), graph_node,
                                         out_nodes, matched)
             IN  set_graph(logged, graph, remove_node(G2, graph_node))
        ELSE IF is_orphan(G, graph_node)
             THEN set_graph(logged, graph, remove_node(G, graph_node))
             ELSE logged

RECURSIVE reattach_loop(_, _, _, _, _)
reattach_loop(st, graph, cur_node_dict, reverse_transform_dict, i) ==
    IF st.raised # "" \/ i > Len(reverse_transform_dict) THEN st
    ELSE reattach_loop(
             reattach_step(st, graph, cur_node_dict, reverse_transform_dict,
                           reverse_transform_dict[i][1]),
             graph, cur_node_dict, reverse_transform_dict, i + 1)

----------------------------------------------------------------------------
(* Rule.apply (lines 108-164)                                              *)

\* lines 124-125
set_cur(st, graph, transform_node_dict) ==
    [st EXCEPT !.cur.graph = graph, !.cur.transform_dict = transform_node_dict]

\* lines 163-164
return_value(graph, deepcopy_graph) == IF deepcopy_graph THEN graph ELSE "None"

apply(self, st, space, graph, transform_node_dict, deepcopy_graph) ==
    LET reverse_transform_dict == reverse_dict(transform_node_dict)
        c == IF deepcopy_graph THEN copy_apply_graph(st, graph)
             ELSE [raised |-> "", graph |-> graph, remap |-> <<>>]
        td == IF deepcopy_graph /\ c.raised = ""
              THEN [i \in 1..Len(transform_node_dict) |->
                       <<transform_node_dict[i][1], c.remap[transform_node_dict[i][2]]>>]
              ELSE transform_node_dict
        s0 == set_cur(st, c.graph, td)
        s1 == remove_matched_structure(self, s0, successor_list(self.graph_in, root_node), 1)
        s2 == IF s1.raised # "" THEN s1 ELSE add_output_graph(self, s1, space)
        s3 == IF s2.raised # "" THEN s2
              ELSE reattach_loop(s2, c.graph, s2.cur.node_dict, reverse_transform_dict, 1)
    IN  IF c.raised # "" THEN [st |-> raise(st, c.raised), ret |-> "None"]
        ELSE [st |-> s3,
              ret |-> IF s3.raised # "" THEN "None" ELSE return_value(c.graph, deepcopy_graph)]

----------------------------------------------------------------------------
(* The rules and target graphs of the sequential specification.            *)

RulePatterns ==
    << \* add_prefix(a, b) of string_test.py
       [in |-> <<Leaf("a"), Leaf("b")>>,
        out |-> <<Call("add_prefix", <<Leaf("a"), Leaf("b")>>)>>],
       \* the same with the arguments swapped
       [in |-> <<Leaf("a"), Leaf("b")>>,
        out |-> <<Call("add_postfix", <<Leaf("b"), Leaf("a")>>)>>],
       \* one input payload used twice
       [in |-> <<Leaf("a")>>,
        out |-> <<Call("pair", <<Leaf("a"), Leaf("a")>>)>>],
       \* a dropped binding
       [in |-> <<Leaf("a"), Leaf("b")>>,
        out |-> <<Call("first", <<Leaf("a")>>)>>],
       \* a structured input pattern whose binding is dropped
       [in |-> <<Call("f", <<Leaf("a")>>)>>,
        out |-> <<Leaf("c")>>] >>

Rules == [i \in DOMAIN RulePatterns |->
             Rule(parse("in", RulePatterns[i].in), parse("out", RulePatterns[i].out))]

TargetPatterns ==
    { <<Leaf("hello"), Leaf("banana")>>,
      <<Call("g", <<Call("h", <<Leaf("world")>>)>>)>> }

in_nodes(self) == self.graph_in.nodes \ {root_node}

RECURSIVE Orderings(_)
Orderings(S) ==
    IF S = {} THEN {<<>>}
    ELSE UNION {{<<x>> \o o : o \in Orderings(S \ {x})} : x \in S}

Injective(f) == \A x, y \in DOMAIN f : x # y => f[x] # f[y]

\* The matches a caller may pass: one-to-one, total on the input pattern,
\* mirroring every edge of the input pattern (its top-level nodes are matched
\* to top-level nodes of the target); the dict may have been filled in any
\* order.
Matches(self, G) ==
    LET image(f, n) == IF n = root_node THEN root_node ELSE f[n]
        fs == {f \in [in_nodes(self) -> G.nodes \ {root_node}] :
                  /\ Injective(f)
                  /\ \A e \in self.graph_in.edges :
                         has_edge(G, image(f, e[1]), image(f, e[2]))}
    IN  UNION {{[i \in 1..Len(o) |-> <<o[i], f[o[i]]>>] : o \in Orderings(in_nodes(self))}
               : f \in fs}

\* Matches that name a Node which is not (or no longer) in the target graph.
StaleMatches(self, G, allocated) ==
    LET fs == {f \in [in_nodes(self) -> allocated] :
                  /\ Injective(f)
                  /\ \E n \in in_nodes(self) : f[n] \notin G.nodes}
    IN  UNION {{[i \in 1..Len(o) |-> <<o[i], f[o[i]]>>] : o \in Orderings(in_nodes(self))}
               : f \in fs}

NoCur == [graph |-> "None", transform_dict |-> <<>>, node_dict |-> <<>>]

NoCall == [called |-> FALSE, rule |-> 0, graph |-> "None", transform_node_dict |-> <<>>,
           deepcopy_graph |-> FALSE, pre |-> EmptyGraph, raised |-> "", ret |-> "None",
           log |-> <<>>]

Memory == [graphs |-> graphs, heap |-> heap, next |-> next, cur |-> cur,
           raised |-> "", log |-> <<>>]

Init ==
    /\ \E t \in TargetPatterns :
           LET p == parse("t", t)
           IN  /\ graphs = [g \in {"g"} |-> p.graph]
               /\ heap = p.value
               /\ next = [s \in {"t"} |-> p.n]
    /\ rule = NotBuilt
    /\ last = NoCall
    /\ napplies = 0
    /\ cur = NoCur
    /\ work = <<>>

\* One complete call rule.apply(graph, transform_node_dict, deepcopy_graph).
\* Every Rule object has its own _cur_* attributes; a call overwrites them
\* before it reads them, so one record cur stands for those of all rules.
Call_apply(r, transform_node_dict, deepcopy_graph) ==
    LET res == apply(Rules[r], Memory, "t", "g", transform_node_dict, deepcopy_graph)
    IN  /\ napplies < MaxApplies
        /\ last.raised = ""      \* the caller drops a candidate whose rewrite raised
        /\ napplies' = napplies + 1
        /\ graphs' = res.st.graphs
        /\ heap' = res.st.heap
        /\ next' = res.st.next
        /\ cur' = res.st.cur
        /\ last' = [called |-> TRUE, rule |-> r, graph |-> "g",
                    transform_node_dict |-> transform_node_dict,
                    deepcopy_graph |-> deepcopy_graph, pre |-> graphs["g"],
                    raised |-> res.st.raised, ret |-> res.ret, log |-> res.st.log]
        /\ UNCHANGED <<rule, work>>

ApplyInPlace ==
    \E r \in DOMAIN Rules : \E m \in Matches(Rules[r], graphs["g"]) :
        Call_apply(r, m, FALSE)

ApplyCopy ==
    \E r \in DOMAIN Rules : \E m \in Matches(Rules[r], graphs["g"]) :
        Call_apply(r, m, TRUE)

ApplyStale ==
    \E r \in DOMAIN Rules : \E m \in StaleMatches(Rules[r], graphs["g"], DOMAIN heap) :
        Call_apply(r, m, FALSE)

Next == ApplyInPlace \/ ApplyCopy \/ ApplyStale

Spec == Init /\ [][Next]_vars

----------------------------------------------------------------------------
(* SpecRule: the construction of a Rule from two parsed patterns.          *)

PatternTerms ==
    { Leaf("a"), Leaf("b"),
      Call("f", <<Leaf("a")>>),
      Call("f", <<Leaf("a"), Leaf("b")>>),
      Call("f", <<Leaf("b"), Leaf("b")>>) }

Patterns == UNION {[1..n -> PatternTerms] : n \in 1..MaxTop}

InitRule ==
    /\ \E pin \in Patterns : \E pout \in Patterns :
           rule = [state |-> "parsed", in |-> pin, out |-> pout, self |-> NoRule]
    /\ graphs = <<>>
    /\ heap = <<>>
    /\ next = <<>>
    /\ last = NoCall
    /\ napplies = 0
    /\ cur = NoCur
    /\ work = <<>>

\* Rule(parser_obj_in, parser_obj_out)
Construct ==
    /\ rule.state = "parsed"
    /\ rule' = [rule EXCEPT !.state = "built",
                            !.self = Rule(parse("in", rule.in), parse("out", rule.out))]
    /\ UNCHANGED <<graphs, heap, next, last, napplies, cur, work>>

NextRule == Construct

SpecRule == InitRule /\ [][NextRule]_vars

----------------------------------------------------------------------------
(* SpecConc: two workers of the search procedure call apply of the same    *)
(* Rule object, each on its own graph with its own match.  A step of a     *)
(* worker is one of the statement groups of apply; the Rule's attributes   *)
(* _cur_graph, _cur_transform_dict and _cur_node_dict are the variable cur *)
(* that both calls write and read.                                         *)

Workers == {"w1", "w2"}

InitConc ==
    /\ \E r \in DOMAIN Rules : \E t \in [Workers -> TargetPatterns] :
           LET p == [w \in Workers |-> parse(w, t[w])]
           IN  /\ graphs = [w \in Workers |-> p[w].graph]
               /\ heap = p["w1"].value @@ p["w2"].value
               /\ next = [w \in Workers |-> p[w].n]
               /\ \E m \in [Workers -> UNION {Matches(Rules[r], p[w].graph) : w \in Workers}] :
                      /\ \A w \in Workers : m[w] \in Matches(Rules[r], p[w].graph)
                      /\ work = [w \in Workers |->
                                    [pc |-> "line 124", self |-> r, graph |-> w,
                                     transform_node_dict |-> m[w], raised |-> "",
                                     pre |-> p[w].graph]]
    /\ rule = NotBuilt
    /\ last = NoCall
    /\ napplies = 0
    /\ cur = NoCur

\* The effect of a statement group of worker w that leaves the memory as st.
Step(w, st, pc) ==
    /\ graphs' = st.graphs
    /\ heap' = st.heap
    /\ next' = st.next
    /\ cur' = st.cur
    /\ work' = [work EXCEPT ![w].pc = IF st.raised # "" THEN "raised" ELSE pc,
                            ![w].raised = st.raised]
    /\ UNCHANGED <<rule, last, napplies>>

\* line 124: self._cur_graph = graph
SetCurGraph(w) ==
    /\ work[w].pc = "line 124"
    /\ Step(w, [Memory EXCEPT !.cur.graph = work[w].graph], "line 125")

\* line 125: self._cur_transform_dict = transform_node_dict
SetCurTransformDict(w) ==
    /\ work[w].pc = "line 125"
    /\ Step(w, [Memory EXCEPT !.cur.transform_dict = work[w].transform_node_dict], "line 128")

\* lines 128-129
RemoveMatched(w) ==
    /\ work[w].pc = "line 128"
    /\ Step(w, remove_matched_structure(Rules[work[w].self], Memory,
                   successor_list(Rules[work[w].self].graph_in, root_node), 1), "line 101")

\* line 101: self._cur_node_dict = defaultdict(list)
ResetCurNodeDict(w) ==
    /\ work[w].pc = "line 101"
    /\ Step(w, reset_cur_node_dict(Memory), "line 102")

\* lines 102-106
AddOutput(w) ==
    /\ work[w].pc = "line 102"
    /\ Step(w, add_output_graph_loop(Rules[work[w].self], Memory, w,
                   successor_list(Rules[work[w].self].graph_out, root_node), 1), "line 132")

\* lines 132-161
Reattach(w) ==
    /\ work[w].pc = "line 132"
    /\ Step(w, reattach_loop(Memory, work[w].graph, cur.node_dict,
                             reverse_dict(work[w].transform_node_dict), 1), "done")

NextConc ==
    \E w \in Workers :
        \/ SetCurGraph(w)
        \/ SetCurTransformDict(w)
        \/ RemoveMatched(w)
        \/ ResetCurNodeDict(w)
        \/ AddOutput(w)
        \/ Reattach(w)

SpecConc == InitConc /\ [][NextConc]_vars

----------------------------------------------------------------------------
(* Properties of the sequential specification Spec.                        *)

target == graphs["g"]

match_image(d) == {d[i][2] : i \in 1..Len(d)}

\* the last call was made with a match whose nodes were all in the graph
MatchInGraph == last.called /\ match_image(last.transform_node_dict) \subseteq last.pre.nodes

Completed == last.called /\ last.raised = ""

RECURSIVE ReachableFrom(_, _)
ReachableFrom(G, S) ==
    LET T == S \cup UNION {successors(G, n) : n \in S}
    IN  IF T = S THEN S ELSE ReachableFrom(G, T)

\* G and H are the same graph up to the names of their nodes: a bijection
\* that fixes the root, carries edges with their order onto edges and keeps
\* every payload.
Isomorphic(G, H) ==
    /\ Cardinality(G.nodes) = Cardinality(H.nodes)
    /\ \E f \in [G.nodes -> H.nodes] :
           /\ f[root_node] = root_node
           /\ Injective(f)
           /\ \A n \in G.nodes \ {root_node} : heap[n] = heap[f[n]]
           /\ {<<f[e[1]], f[e[2]], e[3]>> : e \in G.edges} = H.edges

\* what the last call's rewrite gives when done in place on the graph as it
\* was before the call
InPlaceRewrite ==
    apply(Rules[last.rule], [Memory EXCEPT !.graphs["g"] = last.pre], "t", "g",
          last.transform_node_dict, FALSE).st.graphs["g"]

\* C1: apply(g, m, copy=True) never mutates g: after the call, returned or
\* failed, g has the nodes, edges and order values it had before.
C1_CopyLeavesGraphUntouched ==
    (last.called /\ last.deepcopy_graph) => graphs[last.graph] = last.pre

C1_Witness ==
    /\ last.called /\ last.deepcopy_graph /\ MatchInGraph
    /\ last.raised = "TypeError"
    /\ last.rule = 1

\* C2: apply returns the rewritten graph for both values of copy: with
\* copy=False the caller's graph after mutation, with copy=True the call
\* completes and returns a separate graph equal, up to node renaming, to the
\* in-place rewrite of the original.
C2_ReturnsRewrittenGraph ==
    MatchInGraph =>
        IF last.deepcopy_graph
        THEN /\ last.raised = ""
             /\ last.ret \in DOMAIN graphs \ {last.graph}
             /\ Isomorphic(graphs[last.ret], InPlaceRewrite)
        ELSE last.raised = "" => last.ret = last.graph

\* C3: after any sequence of completed apply calls on a graph whose order
\* values start unique per source node, the out-edges of every node, the
\* root included, have pairwise distinct order values.
C3_OrdersDistinct ==
    last.raised = "" =>
        \A n \in target.nodes : \A e1, e2 \in out_edges(target, n) :
            e1 # e2 => e1[3] # e2[3]

\* C4: if every node was reachable from the root before apply, every node
\* still in the graph after apply is reachable from the root.
C4_AllReachable ==
    last.raised = "" => target.nodes \subseteq ReachableFrom(target, {root_node})

\* the input-pattern nodes of rule self whose payload the output uses twice
Duplicated(self) == {i \in DOMAIN self.node_dict : Len(self.node_dict[i]) = 2}

\* C5: for a rule whose output uses one input payload twice, apply on a
\* match of that input node to t leaves exactly two new nodes carrying t's
\* value, each with an edge from every predecessor of t outside the match
\* and to every successor of t outside the match, and t is deleted.
C5_DuplicationWired ==
    (Completed /\ MatchInGraph) =>
        \A i \in Duplicated(Rules[last.rule]) :
            LET t == dict_get(last.transform_node_dict, i)
                matched == match_image(last.transform_node_dict)
                copies == {n \in target.nodes \ last.pre.nodes : heap[n] = heap[t]}
            IN  /\ Cardinality(copies) = 2
                /\ \A c \in copies :
                       /\ \A p \in predecessors(last.pre, t) \ matched : has_edge(target, p, c)
                       /\ \A x \in successors(last.pre, t) \ matched : has_edge(target, c, x)
                /\ t \notin target.nodes

\* the entries of the last call's log for matched nodes whose input-pattern
\* node has no output correspondence
Dropped ==
    {k \in 1..Len(last.log) :
        dict_get(reverse_dict(last.transform_node_dict), last.log[k].node)
            \notin DOMAIN Rules[last.rule].node_dict}

edges_at(G, n) == {e \in G.edges : e[1] = n \/ e[2] = n}

\* C6: a matched node without output correspondence is removed when its
\* out-degree is zero and it is connected only to the root, and is retained,
\* its remaining edges and their order values unchanged, when its out-degree
\* is nonzero.
C6_OrphanCollection ==
    (Completed /\ MatchInGraph) =>
        \A k \in Dropped :
            LET e == last.log[k]
            IN  /\ (e.out_degree = 0 /\ e.predecessors = {root_node}) => e.node \notin target.nodes
                /\ e.out_degree # 0 =>
                       /\ e.node \in target.nodes
                       /\ edges_at(target, e.node) \subseteq last.pre.edges

C6_Witness ==
    /\ Completed /\ MatchInGraph
    /\ \E k \in Dropped : /\ last.log[k].out_degree = 0
                          /\ last.log[k].predecessors = {root_node}
                          /\ last.log[k].node \notin target.nodes
    /\ \E k \in Dropped : /\ last.log[k].out_degree # 0
                          /\ last.log[k].node \in target.nodes
                          /\ edges_at(target, last.log[k].node) # {}

\* C7: when the match references a node that is not in the target graph,
\* apply fails with BadGraph before any mutation of the graph.
C7_StaleMatchRaisesBadGraph ==
    (last.called /\ ~MatchInGraph) =>
        /\ last.raised = "BadGraph"
        /\ graphs[last.graph] = last.pre

\* the rules of the shape of add_prefix(a, b): the input pattern is a set of
\* top-level leaves with distinct payloads, the output pattern one call
\* whose arguments are those leaves, each once
PrefixShape(self) ==
    LET tops == successors(self.graph_out, root_node)
    IN  /\ \A e \in self.graph_in.edges : e[1] = root_node
        /\ \A i, j \in in_nodes(self) : i # j => self.value_in[i] # self.value_in[j]
        /\ Cardinality(tops) = 1
        /\ \A c \in tops :
               /\ c \notin DOMAIN self.reverse_node_dict
               /\ successors(self.graph_out, c) = self.graph_out.nodes \ {root_node, c}
               /\ successors(self.graph_out, c) = DOMAIN self.reverse_node_dict
               /\ \A i \in in_nodes(self) :
                      Cardinality({o \in DOMAIN self.reverse_node_dict :
                                       self.reverse_node_dict[o] = i}) = 1

\* every matched node is a childless child of the root with no other predecessor
MatchedAreTopLevelLeaves ==
    \A t \in match_image(last.transform_node_dict) :
        /\ t \in last.pre.nodes
        /\ successors(last.pre, t) = {}
        /\ predecessors(last.pre, t) = {root_node}

----------------------------------------------------------------------------
(* Properties of SpecRule.                                                 *)

HasDuplicates(s) == \E i, j \in DOMAIN s : i # j /\ s[i] = s[j]

\* C9: node_dict and reverse_node_dict are inverse to each other, every
\* output node is in at most one list and at most once, corresponding nodes
\* carry the same payload, and an input payload that no output node carries
\* has no entry in either table.
C9_NodeDictsInverse ==
    rule.state = "built" =>
        LET self == rule.self
            outs == self.graph_out.nodes \ {root_node}
            ins == in_nodes(self)
            nd == self.node_dict
            rd == self.reverse_node_dict
        IN  /\ DOMAIN nd \subseteq ins
            /\ DOMAIN rd \subseteq outs
            /\ \A o \in outs : \A i \in ins :
                   (o \in DOMAIN rd /\ rd[o] = i) <=> (i \in DOMAIN nd /\ o \in Range(nd[i]))
            /\ \A i \in DOMAIN nd : ~HasDuplicates(nd[i])
            /\ \A i, j \in DOMAIN nd : i # j => Range(nd[i]) \cap Range(nd[j]) = {}
            /\ \A o \in DOMAIN rd : self.value_out[o] = self.value_in[rd[o]]
            /\ \A i \in ins :
                   (\A o \in outs : self.value_out[o] # self.value_in[i]) =>
                       /\ i \notin DOMAIN nd
                       /\ \A o \in DOMAIN rd : rd[o] # i

\* a rule with two corresponding payloads, one of them used twice by the
\* output, and an input payload the output drops
C9_Witness ==
    /\ rule.state = "built"
    /\ Cardinality(DOMAIN rule.self.node_dict) = 2
    /\ \E i \in DOMAIN rule.self.node_dict : Len(rule.self.node_dict[i]) = 2
    /\ \E i \in in_nodes(rule.self) : i \notin DOMAIN rule.self.node_dict

----------------------------------------------------------------------------
(* Properties of SpecConc.                                                 *)

\* what worker w's call gives when it runs alone on its graph
Alone(w) ==
    apply(Rules[work[w].self],
          [graphs |-> [v \in Workers |-> work[v].pre],
           heap |-> [n \in {m \in DOMAIN heap : m[2] <= Cardinality(work[m[1]].pre.nodes) - 1} |-> heap[n]],
           next |-> [v \in Workers |-> Cardinality(work[v].pre.nodes) - 1],
           cur |-> NoCur, raised |-> "", log |-> <<>>],
          w, work[w].graph, work[w].transform_node_dict, FALSE).st

\* C8: two concurrent calls of apply of one Rule, each on its own graph and
\* match: under every interleaving each graph ends as it would had its call
\* run alone.
C8_WorkersIsolated ==
    (\A w \in Workers : work[w].pc \in {"done", "raised"}) =>
        \A w \in Workers :
            /\ work[w].raised = Alone(w).raised
            /\ graphs[w] = Alone(w).graphs[w]

====
